---- MODULE Spec2Model ----
(***************************************************************************)
(* Model of ocspd.                                                         *)
(*                                                                         *)
(* First the scheduler (core/scheduling.py): the contexts, the             *)
(* forward map `schedule` (time -> list of contexts, a dict that keeps     *)
(* insertion order), the reverse map `scheduled` (context -> time), the    *)
(* named task queues, and the operations add_task, cancel_task, get_task,  *)
(* reschedule, _run (tick) and run_all.                                    *)
(*                                                                         *)
(* Time is counted in whole seconds.  Every operation is one atomic step   *)
(* taken at the clock reading `now`; the clock moves between operations.   *)
(*                                                                         *)
(* Then the certificate records (core/certcontext.py): parse_crt_chain and *)
(* renew_ocsp_staple with its retry loop, and the renewer workers          *)
(* (core/ocsprenewer.py) that take records from the renew queue.  SpecCert *)
(* is the specification of that part; the scheduler stays idle in it, as   *)
(* the records stay untouched in Spec.                                     *)
(*                                                                         *)
(* SpecThreads tells the steps of _run apart: the scheduler thread works   *)
(* through a tick while other threads call add_task and cancel_task.       *)
(***************************************************************************)
EXTENDS Integers, Sequences, FiniteSets, TLC

(***************************************************************************)
(* Bounds of the model.                                                    *)
(***************************************************************************)
\* calls of add_task, cancel_task, reschedule, _run and run_all in a run
MaxCalls == 3
\* the clock reads 0 .. MaxTime, or MaxTime + LongDelay after a long pause;
\* the absolute schedule times handed to add_task are 0 .. MaxTime
MaxTime == 2
LongDelay == 60
\* relative schedule times (int seconds) handed to add_task: 0 .. MaxDur
MaxDur == 1

\* the value None of a sched_time, and of a missing key of `scheduled`
NoTime == -1

(***************************************************************************)
(* Contexts.  A context is an object; the dict `scheduled` and the test    *)
(* `x is ctx` go by the object, __repr__ goes by task and name.  a1 and a2 *)
(* are two objects with the same string form.                              *)
(***************************************************************************)
Contexts == {"a1", "a2", "b"}
Queues == {"renew", "parse"}

\* ScheduledTaskContext.task: the queue the context is put on
Task(c) == IF c = "b" THEN "parse" ELSE "renew"

\* ScheduledTaskContext.name
Name(c) == IF c = "b" THEN "b" ELSE "a"

\* ScheduledTaskContext.__repr__
Repr(c) == <<Task(c), Name(c)>>

\* the values of ctx.sched_time at a call of add_task
Whens ==
    {[kind |-> "none", v |-> NoTime]}
    \cup {[kind |-> "abs", v |-> t] : t \in 0..MaxTime}
    \cup {[kind |-> "rel", v |-> d] : d \in 0..MaxDur}

\* the readings of the clock
Clock == (0..MaxTime) \cup {MaxTime + LongDelay}

VARIABLES
    now,        \* datetime.datetime.now(), in seconds
    schedule,   \* SchedulerThread.schedule: sequence of slots [when, born, items]
    scheduled,  \* SchedulerThread.scheduled: context -> time, NoTime = absent
    queues,     \* SchedulerThread._queues: queue name -> sequence of entries
    attached,   \* ctx.scheduler is set
    delivered,  \* per queue, the entries get_task has returned, in order
    trace,      \* the scheduler calls made so far, with their outcomes
    pem,        \* per certificate file, its content: a sequence of certificates
    crt,        \* per certificate file, the fields of its CertContext
    ocsp_file,  \* per certificate file, the content of "<file>.ocsp"
    renew_queue,\* _OCSPRenewer.renew_queue: the records waiting for a worker
    unfinished, \* renew_queue.unfinished_tasks: puts not yet marked task_done
    worker,     \* per renewer thread, "running" or the exception that ended it
    acq,        \* the latest call of parse_crt_chain or renew_ocsp_staple
    runner      \* the scheduler thread inside _run, when its steps are told apart

\* the variables of the certificate records and the renewer
certVars == <<pem, crt, ocsp_file, renew_queue, unfinished, worker, acq>>

vars == <<now, schedule, scheduled, queues, attached, delivered, trace,
          pem, crt, ocsp_file, renew_queue, unfinished, worker, acq,
          runner>>

\* number of scheduler calls made so far
calls == Len(trace)

\* the record of one call: the operation, its context (for _run, the context
\* at which it raised), the sched_time add_task was given, the clock reading
\* a relative sched_time was converted at, and the outcome ("ok", "True",
\* "False" or the name of the exception)
Call(op, c, w, result) ==
    [op |-> op, ctx |-> c, w |-> w,
     at |-> IF w.kind = "rel" THEN now ELSE NoTime, result |-> result]

\* sched_time = None
None == [kind |-> "none", v |-> NoTime]

(***************************************************************************)
(* Helpers on the insertion-ordered dict `schedule`.                       *)
(***************************************************************************)
\* the keys of the dict, in insertion order
Keys(sch) == [i \in 1..Len(sch) |-> sch[i].when]

\* `t in self.schedule`
HasSlot(sch, t) == \E i \in 1..Len(sch) : sch[i].when = t

\* index of the slot of key t
SlotIndex(sch, t) == CHOOSE i \in 1..Len(sch) : sch[i].when = t

\* self.schedule[t]
SlotItems(sch, t) == sch[SlotIndex(sch, t)].items

\* self.schedule[t] = items: an existing key keeps its place, a new key
\* goes last (born numbers the call that created the key)
SetSlot(sch, t, items) ==
    IF HasSlot(sch, t)
    THEN [sch EXCEPT ![SlotIndex(sch, t)].items = items]
    ELSE Append(sch, [when |-> t, born |-> calls + 1, items |-> items])

\* self.schedule.pop(t)
PopSlot(sch, t) == SelectSeq(sch, LAMBDA s : s.when # t)

\* the contexts of a slot's items, in order
CtxsOf(items) == [i \in 1..Len(items) |-> items[i].ctx]

(***************************************************************************)
(* cancel_task, as a function of the two maps.                             *)
(***************************************************************************)
\* slot[:] = [x for x in slot if x is ctx]
CancelFilter(items, c) == SelectSeq(items, LAMBDA x : x.ctx = c)

\* SchedulerThread.cancel_task: the maps after the call and the value
\* returned.  scheduled.pop(ctx) raises KeyError when ctx is absent, and
\* schedule[sched_time] raises KeyError when the slot is gone; both end in
\* `return False`, the second after the pop has been done.
CancelTaskOn(sch, sd, c) ==
    IF sd[c] = NoTime
    THEN [schedule |-> sch, scheduled |-> sd, ret |-> FALSE]
    ELSE LET t == sd[c]
             sd1 == [sd EXCEPT ![c] = NoTime]
         IN  IF ~HasSlot(sch, t)
             THEN [schedule |-> sch, scheduled |-> sd1, ret |-> FALSE]
             ELSE [schedule |-> SetSlot(sch, t, CancelFilter(SlotItems(sch, t), c)),
                   scheduled |-> sd1, ret |-> TRUE]

(***************************************************************************)
(* add_task.                                                               *)
(***************************************************************************)
\* `not ctx.sched_time`: None and the int 0 are false, a datetime is true
RunsAsap(w) == w.kind = "none" \/ (w.kind = "rel" /\ w.v = 0)

\* the absolute time of a sched_time read at clock t
AbsoluteTime(w, t) == IF w.kind = "rel" THEN t + w.v ELSE w.v

\* a slot that takes the new context at its front
SlotPrepend(items, e) == <<e>> \o items

\* self.schedule[sched_time].append(ctx)
SlotAppend(items, e) == Append(items, e)

\* lines 169-173: the test is made with ctx.sched_time, which is a key of
\* the dict only when it is a datetime
RecordInSlot(sch, w, t, e) ==
    IF w.kind = "abs" /\ HasSlot(sch, t)
    THEN SetSlot(sch, t, SlotAppend(SlotItems(sch, t), e))
    ELSE SetSlot(sch, t, <<e>>)

\* ctx.sched_time.strftime(...) in the log call: an int has no strftime
AddTaskOutcome(w) == IF w.kind = "rel" THEN "AttributeError" ELSE "ok"

\* the entry _queue_task puts on a queue, with the bookkeeping of where it
\* came from: seq numbers the add_task call, slot is the key of the slot it
\* was taken from and born the call that created that slot, at is the clock
\* reading, run the number of the call that put it on the queue
QueueEntry(c, seq, slot, born, at, via, run) ==
    [ctx |-> c, seq |-> seq, slot |-> slot, born |-> born, at |-> at,
     via |-> via, run |-> run]

\* SchedulerThread._queue_task
QueueTask(qs, e) == [qs EXCEPT ![Task(e.ctx)] = Append(@, e)]

\* SchedulerThread.add_task
AddTask(c, w) ==
    /\ calls < MaxCalls
    /\ attached' = [attached EXCEPT ![c] = TRUE]
    /\ IF RunsAsap(w)
       THEN /\ queues' = QueueTask(queues,
                    QueueEntry(c, calls + 1, NoTime, calls + 1, now, "asap", calls + 1))
            /\ trace' = Append(trace, Call("add_task", c, w, "ok"))
            /\ UNCHANGED <<schedule, scheduled>>
       ELSE LET t == AbsoluteTime(w, now)
                st == IF scheduled[c] # NoTime
                      THEN CancelTaskOn(schedule, scheduled, c)
                      ELSE [schedule |-> schedule, scheduled |-> scheduled, ret |-> FALSE]
            IN  /\ scheduled' = [st.scheduled EXCEPT ![c] = t]
                /\ schedule' = RecordInSlot(st.schedule, w, t,
                                            [ctx |-> c, seq |-> calls + 1])
                /\ trace' = Append(trace, Call("add_task", c, w, AddTaskOutcome(w)))
                /\ UNCHANGED queues
    /\ UNCHANGED <<now, delivered>>
    /\ UNCHANGED certVars
    /\ UNCHANGED runner

\* SchedulerThread.cancel_task
CancelTask(c) ==
    /\ calls < MaxCalls
    /\ LET st == CancelTaskOn(schedule, scheduled, c)
       IN  /\ schedule' = st.schedule
           /\ scheduled' = st.scheduled
           /\ trace' = Append(trace, Call("cancel_task", c, None,
                                          IF st.ret THEN "True" ELSE "False"))
    /\ UNCHANGED <<now, queues, attached, delivered>>
    /\ UNCHANGED certVars
    /\ UNCHANGED runner

\* ScheduledTaskContext.reschedule: self.scheduler.add_task(self, sched_time)
\* passes one argument more than add_task takes (TypeError) when the
\* scheduler is set, and is an attribute access on None otherwise
RescheduleOutcome(isAttached) ==
    IF isAttached THEN "TypeError" ELSE "AttributeError"

Reschedule(c, w) ==
    /\ calls < MaxCalls
    /\ trace' = Append(trace, Call("reschedule", c, None, RescheduleOutcome(attached[c])))
    /\ UNCHANGED <<now, schedule, scheduled, queues, attached, delivered>>
    /\ UNCHANGED certVars
    /\ UNCHANGED runner

\* SchedulerThread.get_task: queue.get() of a non-empty queue
GetTask(q) ==
    /\ queues[q] # <<>>
    /\ delivered' = [delivered EXCEPT ![q] = Append(@, Head(queues[q]))]
    /\ queues' = [queues EXCEPT ![q] = Tail(@)]
    /\ UNCHANGED <<now, schedule, scheduled, attached, trace>>
    /\ UNCHANGED certVars
    /\ UNCHANGED runner

(***************************************************************************)
(* _run: the tick of the scheduler loop, and run_all.                      *)
(***************************************************************************)
\* timedelta.seconds of a difference of d seconds: the seconds component of
\* the normalised timedelta, in 0 .. 86399 (a negative difference has
\* days = -1 and the rest in seconds)
LateSeconds(d) == d % 86400

\* lines 268-275: the last branch calls strftime on a timedelta, which has
\* none (AttributeError); it is taken for 1 second and for 59 and more
LateLogRaises(d) ==
    /\ ~(LateSeconds(d) < 1)
    /\ ~(1 < LateSeconds(d) /\ LateSeconds(d) < 59)

\* `for x in seq if x <= t`, in order
RECURSIVE KeysUpTo(_, _)
KeysUpTo(ks, t) ==
    IF ks = <<>> THEN <<>>
    ELSE IF Head(ks) <= t THEN <<Head(ks)>> \o KeysUpTo(Tail(ks), t)
         ELSE KeysUpTo(Tail(ks), t)

\* a _run that takes every key, whatever the clock says
TodoEverything(sch, t, allTasks) == Keys(sch)

\* a _run that takes the keys up to now in the order of their times
TodoSorted(sch, t, allTasks) ==
    SortSeq(IF allTasks THEN Keys(sch) ELSE KeysUpTo(Keys(sch), t),
            LAMBDA x, y : x < y)

\* lines 254-258: the keys to run, in the order the dict yields them
Todo(sch, t, allTasks) ==
    IF allTasks THEN Keys(sch) ELSE KeysUpTo(Keys(sch), t)

\* lines 261-278: the loop over the items of one popped slot; it stops at
\* the first exception
RECURSIVE RunItems(_, _, _, _, _, _)
RunItems(st, items, slot, t, via, run) ==
    IF items = <<>> THEN st
    ELSE LET c == Head(items).ctx
         IN  IF st.scheduled[c] = NoTime
             THEN [st EXCEPT !.err = "KeyError", !.errctx = c]
             ELSE LET st1 == [st EXCEPT
                              !.scheduled[c] = NoTime,
                              !.queues = QueueTask(@,
                                  QueueEntry(c, Head(items).seq, slot.when,
                                             slot.born, t, via, run))]
                  IN  IF LateLogRaises(t - slot.when)
                      THEN [st1 EXCEPT !.err = "AttributeError", !.errctx = c]
                      ELSE RunItems(st1, Tail(items), slot, t, via, run)

\* lines 259-260: the loop over the keys
RECURSIVE RunTodo(_, _, _, _, _)
RunTodo(st, todo, t, via, run) ==
    IF todo = <<>> \/ st.err # "ok" THEN st
    ELSE LET k == Head(todo)
             slot == st.schedule[SlotIndex(st.schedule, k)]
             st1 == [st EXCEPT !.schedule = PopSlot(@, k)]
         IN  RunTodo(RunItems(st1, slot.items, slot, t, via, run),
                     Tail(todo), t, via, run)

\* SchedulerThread._run
Run(allTasks) ==
    /\ calls < MaxCalls
    /\ LET via == IF allTasks THEN "run_all" ELSE "tick"
           st == RunTodo([schedule |-> schedule, scheduled |-> scheduled,
                          queues |-> queues, err |-> "ok", errctx |-> ""],
                         Todo(schedule, now, allTasks), now, via, calls + 1)
       IN  /\ schedule' = st.schedule
           /\ scheduled' = st.scheduled
           /\ queues' = st.queues
           /\ trace' = Append(trace, Call(via, st.errctx, None, st.err))
    /\ UNCHANGED <<now, attached, delivered>>
    /\ UNCHANGED certVars
    /\ UNCHANGED runner

\* one pass of the loop of SchedulerThread.run
Tick == Run(FALSE)

\* SchedulerThread.run_all
RunAll == Run(TRUE)

\* time passes between two operations
Advance ==
    /\ \E t \in Clock : t > now /\ now' = t
    /\ UNCHANGED <<schedule, scheduled, queues, attached, delivered, trace>>
    /\ UNCHANGED certVars
    /\ UNCHANGED runner

(***************************************************************************)
(* Certificate records (core/certcontext.py).  A certificate file holds a  *)
(* sequence of certificates; a CertContext keeps what parse_crt_chain read *)
(* from it and what renew_ocsp_staple got from the OCSP responder.         *)
(***************************************************************************)
\* calls of parse_crt_chain and renew_ocsp_staple, puts on the renew queue
\* and turns of the renewer loop in a run
MaxOps == 4
\* the end entity names 0 .. MaxUrls OCSP URLs
MaxUrls == 2
\* the responder's answers are valid until 1 .. MaxValid
MaxValid == 2

\* ocsp.OCSP_REQUEST_RETRY_COUNT, the RETRY_MAX of the retry loop
OCSP_REQUEST_RETRY_COUNT == 3

\* the name `ocsp` in the namespace of core/certcontext.py: the module
\* imports OCSP_REQUEST_RETRY_COUNT from ocsp, never ocsp itself
OcspNameBound == FALSE

\* the certificate files the daemon found, and the renewer threads
Files == {"x.pem", "y.pem"}
Workers == {"ocsp-renewer-0", "ocsp-renewer-1"}

\* end_entity = None
NoCert == [name |-> "none", ca |-> FALSE, ocsp_urls |-> <<>>]

\* a server certificate naming n OCSP URLs (URL i is the number i), the CA
\* certificate that issued it, and the trust root that issued the CA
EndEntity(n) == [name |-> "ee", ca |-> FALSE, ocsp_urls |-> [i \in 1..n |-> i]]
Issuer == [name |-> "ca", ca |-> TRUE, ocsp_urls |-> <<>>]
TrustRoot == [name |-> "root", ca |-> TRUE, ocsp_urls |-> <<>>]

\* the contents of a certificate file: the CA alone, the server certificate
\* alone, or the server certificate followed by its CA
PemFiles ==
    {<<Issuer>>, <<EndEntity(1)>>}
    \cup {<<EndEntity(n), Issuer>> : n \in 0..MaxUrls}

\* the bytes b'' of a response body
Empty == [status |-> "empty", valid_until |-> NoTime]

\* the bytes of an OCSP response: its certStatus and its next update time
Bodies ==
    {Empty} \cup {[status |-> s, valid_until |-> v] :
                    s \in {"good", "revoked", "unknown"}, v \in 1..MaxValid}

\* a staple file left by an earlier acquisition
OldStaple == [status |-> "good", valid_until |-> 0]

\* no "<file>.ocsp" on disk
NoFile == [status |-> "nofile", valid_until |-> NoTime]

\* what requests.post does: a network error (connection error, timeout, too
\* many redirects), or a response with a status code and a body
NetErr == [kind |-> "neterr", code |-> 0, content |-> Empty]
Replies ==
    {NetErr} \cup {[kind |-> "response", code |-> c, content |-> b] :
                    c \in {200, 500}, b \in Bodies}

\* the local variable `request` before its first assignment
Unbound == [kind |-> "unbound", code |-> 0, content |-> Empty]

\* ocsp_staple = None
NoStaple == [data |-> Empty, status |-> "none", valid_until |-> NoTime]

\* util.ocsp.OCSPResponseParser: the raw bytes, with the certStatus and the
\* next update time read out of them
OCSPResponseParser(body) ==
    [data |-> body, status |-> body.status, valid_until |-> body.valid_until]

\* ocsp_request = None, and the request built for a certificate and its issuer
NoRequest == [cert |-> "none", issuer |-> "none"]
OCSPRequest(cert, issuer) == [cert |-> cert.name, issuer |-> issuer.name]

\* CertContext.__init__
NewCertContext ==
    [end_entity |-> NoCert, intermediates |-> <<>>, ocsp_staple |-> NoStaple,
     ocsp_request |-> NoRequest, ocsp_urls |-> <<>>, chain |-> <<>>,
     valid_until |-> NoTime]

\* the number of calls made on the records and the renewer so far
ops == acq.n

\* the record of one call: the operation, the file of the record, the
\* thread that made it, the events of the call in order, and its outcome
\* ("True", "ok" or the name of the exception)
Acq(op, f, by, log, result) ==
    [n |-> ops + 1, op |-> op, file |-> f, by |-> by, log |-> log,
     result |-> result]

\* one event of a call: a POST to URL number url with the reply it got, a
\* check of a body by check_ocsp_response with the response it was taken
\* from (both with n = the value of `retry`), a sleep of n seconds, a run
\* of _validate_cert on a staple with its verdict, or a write of bytes to
\* "<file>.ocsp"
Event(ev, url, n, reply, data, good) ==
    [ev |-> ev, url |-> url, n |-> n, reply |-> reply, data |-> data,
     good |-> good]

\* CertContext._read_full_chain over the certificates of the file: a CA
\* certificate is appended to intermediates, another one becomes end_entity
RECURSIVE ReadFullChain(_, _)
ReadFullChain(c, certs) ==
    IF certs = <<>> THEN c
    ELSE LET x == Head(certs)
         IN  ReadFullChain(
                 IF x.ca
                 THEN [c EXCEPT !.intermediates = Append(@, x)]
                 ELSE [c EXCEPT !.end_entity = x, !.ocsp_urls = x.ocsp_urls],
                 Tail(certs))

\* certvalidator's verdict on a staple handed to it: a revoked certificate
\* is rejected, otherwise the library decides (signature, dates, fetched
\* revocation data), which `sound` stands for
StapleAccepted(staple, sound) == staple.status # "revoked" /\ sound

\* CertContext._validate_cert: the validated path from the trust root to
\* the end entity, or the exception raised
ValidateCert(c, sound) ==
    IF c.end_entity = NoCert
    THEN [exc |-> "TypeError", chain |-> <<>>]
    ELSE IF ~ \E i \in 1..Len(c.intermediates) : c.intermediates[i] = Issuer
    THEN [exc |-> "CertValidationError", chain |-> <<>>]
    ELSE IF c.ocsp_staple # NoStaple /\ ~StapleAccepted(c.ocsp_staple, sound)
    THEN [exc |-> "CertValidationError", chain |-> <<>>]
    ELSE [exc |-> "ok", chain |-> <<TrustRoot, Issuer, c.end_entity>>]

\* CertContext.parse_crt_chain on a record c and the content of its file
ParseCrtChainOn(c, certs, sound) ==
    LET r == ReadFullChain(c, certs)
        v == ValidateCert(r, sound)
    IN  IF v.exc = "ok"
        THEN [crt |-> [r EXCEPT !.chain = v.chain], result |-> "ok"]
        ELSE [crt |-> r, result |-> "CertValidationError"]

\* a call of parse_crt_chain on the record of file f
ParseCrtChain(f) ==
    /\ ops < MaxOps
    /\ \E sound \in BOOLEAN :
         LET r == ParseCrtChainOn(crt[f], pem[f], sound)
         IN  /\ crt' = [crt EXCEPT ![f] = r.crt]
             /\ acq' = Acq("parse_crt_chain", f, "", <<>>, r.result)
    /\ UNCHANGED <<pem, ocsp_file, renew_queue, unfinished, worker>>
    /\ UNCHANGED <<now, schedule, scheduled, queues, attached, delivered, trace>>
    /\ UNCHANGED runner

(***************************************************************************)
(* renew_ocsp_staple.  A call works on st = [crt, file, log, request]: the *)
(* record, the staple file, the events so far and the local variable       *)
(* `request`; it ends in [crt, file, log, result].  The replies of the     *)
(* responder and the verdicts of the validator are not the program's to    *)
(* choose, so a call has a set of possible ends.                           *)
(***************************************************************************)
\* the end of a call: it returned True or raised
Finish(st, result) ==
    [crt |-> st.crt, file |-> st.file, log |-> st.log, result |-> result]

\* check_ocsp_response without the test for b'': an empty body counts as
\* one more answer that is not good
CheckOcspResponseLenient(c, ocsp_staple) ==
    IF ocsp_staple = Empty
    THEN [crt |-> c, ret |-> "False"]
    ELSE LET parsed == OCSPResponseParser(ocsp_staple)
             kept == [c EXCEPT !.ocsp_staple = parsed]
         IN  IF parsed.status = "good"
             THEN [crt |-> [kept EXCEPT !.valid_until = parsed.valid_until],
                   ret |-> "True"]
             ELSE IF parsed.status = "revoked"
             THEN [crt |-> kept, ret |-> "OCSPRenewError"]
             ELSE [crt |-> kept, ret |-> "False"]

\* check_ocsp_response: the record afterwards and "True", "False" or the
\* exception raised
CheckOcspResponse(c, ocsp_staple) ==
    IF ocsp_staple = Empty
    THEN [crt |-> c, ret |-> "OCSPRenewError"]
    ELSE LET parsed == OCSPResponseParser(ocsp_staple)
             kept == [c EXCEPT !.ocsp_staple = parsed]
         IN  IF parsed.status = "good"
             THEN [crt |-> [kept EXCEPT !.valid_until = parsed.valid_until],
                   ret |-> "True"]
             ELSE IF parsed.status = "revoked"
             THEN [crt |-> kept, ret |-> "OCSPRenewError"]
             ELSE [crt |-> kept, ret |-> "False"]

\* sleep_time once `retry` attempts are left
SleepTime(retry) == (OCSP_REQUEST_RETRY_COUNT - retry) * 5

\* the end of renew_ocsp_staple with the write moved before the validation
WriteAndValidate(st, ocsp_staple) ==
    { LET v == ValidateCert(st.crt, sound)
          seen == [st EXCEPT
                      !.file = ocsp_staple,
                      !.log = Append(Append(@,
                          Event("write", 0, 0, Unbound, ocsp_staple, TRUE)),
                          Event("validate", 0, 0, Unbound,
                                st.crt.ocsp_staple.data, v.exc = "ok"))]
      IN  Finish(seen, IF v.exc # "ok" THEN v.exc ELSE "True")
      : sound \in BOOLEAN }

\* the end of renew_ocsp_staple once the loop is left by `break`: the
\* record is validated with its staple, then the body is written out
ValidateAndWrite(st, ocsp_staple) ==
    { LET v == ValidateCert(st.crt, sound)
          seen == [st EXCEPT !.log = Append(@,
                      Event("validate", 0, 0, Unbound,
                            st.crt.ocsp_staple.data, v.exc = "ok"))]
      IN  IF v.exc # "ok"
          THEN Finish(seen, v.exc)
          ELSE Finish([seen EXCEPT
                          !.file = ocsp_staple,
                          !.log = Append(@, Event("write", 0, 0, Unbound,
                                                  ocsp_staple, TRUE))],
                      "True")
      : sound \in BOOLEAN }

RECURSIVE RenewOcspStapleOn(_, _)
RECURSIVE RetryLoop(_, _, _)

\* one turn of the retry loop with the reply the POST gets, `retry`
\* attempts being left before it
Attempt(st, url_index, retry, reply) ==
    LET url == st.crt.ocsp_urls[url_index + 1]
        posted == [st EXCEPT
                      !.log = Append(@, Event("post", url, retry, reply, Empty, TRUE)),
                      !.request = IF reply.kind = "response" THEN reply ELSE @]
    IN  IF reply.kind = "response" /\ reply.code >= 400
        THEN \* the handler of HTTPError reads request.status
             {Finish(posted, "AttributeError")}
        ELSE IF posted.request = Unbound
        THEN \* request.content with no response ever assigned
             {Finish(posted, "UnboundLocalError")}
        ELSE
        LET ocsp_staple == posted.request.content
            chk == CheckOcspResponse(posted.crt, ocsp_staple)
            checked == [posted EXCEPT
                           !.crt = chk.crt,
                           !.log = Append(@, Event("check", url, retry,
                                                   posted.request, ocsp_staple,
                                                   chk.ret = "True"))]
        IN  IF chk.ret = "OCSPRenewError"
            THEN {Finish(checked, "OCSPRenewError")}
            ELSE IF chk.ret = "True"
            THEN ValidateAndWrite(checked, ocsp_staple)
            ELSE IF retry - 1 > 0
            THEN IF OcspNameBound
                 THEN RetryLoop(
                          [checked EXCEPT !.log = Append(@,
                              Event("sleep", url, SleepTime(retry - 1), Unbound,
                                    Empty, TRUE))],
                          url_index, retry - 1)
                 ELSE \* sleep_time reads ocsp.OCSP_REQUEST_RETRY_COUNT
                      {Finish(checked, "NameError")}
            ELSE IF url_index + 1 < Len(checked.crt.ocsp_urls)
            THEN RenewOcspStapleOn(checked, url_index + 1)
            ELSE {Finish(checked, "OCSPRenewError")}

\* the retry loop, entered with retry > 0
RetryLoop(st, url_index, retry) ==
    UNION {Attempt(st, url_index, retry, reply) : reply \in Replies}

\* renew_ocsp_staple(url_index): the checks of the record, the request, then
\* the retry loop on URL url_index
RenewOcspStapleOn(st, url_index) ==
    IF st.crt.end_entity = NoCert
    THEN {Finish(st, "CertValidationError")}
    ELSE IF Len(st.crt.chain) < 1
    THEN {Finish(st, "CertValidationError")}
    ELSE IF url_index + 1 > Len(st.crt.ocsp_urls)
    THEN {Finish(st, "IndexError")}
    ELSE IF Len(st.crt.chain) < 2
    THEN {Finish(st, "IndexError")}
    ELSE RetryLoop(
             [st EXCEPT
                 !.crt.ocsp_request =
                     OCSPRequest(st.crt.end_entity,
                                 st.crt.chain[Len(st.crt.chain) - 1]),
                 !.request = Unbound],
             url_index, OCSP_REQUEST_RETRY_COUNT)

\* the possible ends of crt.renew_ocsp_staple() on the record of file f
RenewOutcomes(f) ==
    RenewOcspStapleOn(
        [crt |-> crt[f], file |-> ocsp_file[f], log |-> <<>>,
         request |-> Unbound], 0)

(***************************************************************************)
(* The renewer (core/ocsprenewer.py).                                      *)
(***************************************************************************)
\* renew_queue.put(crt) by the thread that parses the certificate files
PutRenew(f) ==
    /\ ops < MaxOps
    /\ renew_queue' = Append(renew_queue, f)
    /\ unfinished' = unfinished + 1
    /\ acq' = Acq("put", f, "", <<>>, "ok")
    /\ UNCHANGED <<pem, crt, ocsp_file, worker>>
    /\ UNCHANGED <<now, schedule, scheduled, queues, attached, delivered, trace>>
    /\ UNCHANGED runner

\* one turn of the loop of _OCSPRenewer.run in thread w: get, renew,
\* task_done; an exception of renew_ocsp_staple leaves run, and the thread
\* ends with it
RenewerRun(w) ==
    /\ ops < MaxOps
    /\ worker[w] = "running"
    /\ renew_queue # <<>>
    /\ LET f == Head(renew_queue)
       IN  \E fin \in RenewOutcomes(f) :
             /\ renew_queue' = Tail(renew_queue)
             /\ crt' = [crt EXCEPT ![f] = fin.crt]
             /\ ocsp_file' = [ocsp_file EXCEPT ![f] = fin.file]
             /\ acq' = Acq("run", f, w, fin.log, fin.result)
             /\ IF fin.result = "True"
                THEN unfinished' = unfinished - 1 /\ UNCHANGED worker
                ELSE worker' = [worker EXCEPT ![w] = fin.result]
                     /\ UNCHANGED unfinished
    /\ UNCHANGED pem
    /\ UNCHANGED <<now, schedule, scheduled, queues, attached, delivered, trace>>
    /\ UNCHANGED runner

(***************************************************************************)
(* The scheduler thread and its callers.  SchedulerThread has no lock:     *)
(* run() calls _run in the scheduler thread while the other threads call   *)
(* add_task and cancel_task, so a call can fall between two steps of _run. *)
(* A step of _run is the computing of todo, the pop of one slot, or the    *)
(* handling of one item of the popped slot.                                *)
(***************************************************************************)
\* the maps and queues as a record
Maps == [schedule |-> schedule, scheduled |-> scheduled, queues |-> queues]

\* the slot of _run before its first pop
NoSlot == [when |-> NoTime, born |-> 0, items |-> <<>>]

\* the scheduler thread outside _run, no tick made yet: pc is the place in
\* _run, t its local `now`, todo the keys left, slot the popped slot with
\* the items left, base the maps and from the number of calls made when
\* the tick began, done the place of the finished tick in the trace
IdleRunner ==
    [pc |-> "idle", t |-> 0, todo |-> <<>>, slot |-> NoSlot,
     base |-> [schedule |-> <<>>, scheduled |-> [c \in Contexts |-> NoTime],
               queues |-> [q \in Queues |-> <<>>]],
     from |-> 0, done |-> 0]

\* lines 252-258: _run reads the clock and copies the keys to run
TickBegin ==
    /\ runner.pc = "idle"
    /\ calls < MaxCalls
    /\ runner' = [pc |-> "todo", t |-> now, todo |-> Todo(schedule, now, FALSE),
                  slot |-> NoSlot, base |-> Maps, from |-> calls, done |-> 0]
    /\ UNCHANGED <<now, schedule, scheduled, queues, attached, delivered, trace>>
    /\ UNCHANGED certVars

\* _run returns, or an exception leaves it: the tick is a finished call
TickReturns(result, c) ==
    /\ trace' = Append(trace, Call("tick", c, None, result))
    /\ runner' = [runner EXCEPT !.pc = "idle", !.todo = <<>>, !.slot = NoSlot,
                                !.done = calls + 1]

\* line 260: items = self.schedule.pop(sched_time) for the next key of todo;
\* pop raises KeyError when the key is gone
TickPop ==
    /\ runner.pc = "todo"
    /\ runner.todo # <<>>
    /\ LET k == Head(runner.todo)
       IN  IF HasSlot(schedule, k)
           THEN /\ schedule' = PopSlot(schedule, k)
                /\ runner' = [runner EXCEPT
                                 !.pc = "items",
                                 !.todo = Tail(@),
                                 !.slot = schedule[SlotIndex(schedule, k)]]
                /\ UNCHANGED trace
           ELSE /\ TickReturns("KeyError", "")
                /\ UNCHANGED schedule
    /\ UNCHANGED <<now, scheduled, queues, attached, delivered>>
    /\ UNCHANGED certVars

\* lines 261-278 for the next item of the popped slot, or the end of the
\* loop over its items
TickItem ==
    /\ runner.pc = "items"
    /\ IF runner.slot.items = <<>>
       THEN /\ runner' = [runner EXCEPT !.pc = "todo"]
            /\ UNCHANGED <<schedule, scheduled, queues, trace>>
       ELSE LET st == RunItems([schedule |-> schedule, scheduled |-> scheduled,
                                queues |-> queues, err |-> "ok", errctx |-> ""],
                               <<Head(runner.slot.items)>>, runner.slot,
                               runner.t, "tick", runner.from + 1)
            IN  /\ schedule' = st.schedule
                /\ scheduled' = st.scheduled
                /\ queues' = st.queues
                /\ IF st.err = "ok"
                   THEN /\ runner' = [runner EXCEPT !.slot.items = Tail(@)]
                        /\ UNCHANGED trace
                   ELSE TickReturns(st.err, st.errctx)
    /\ UNCHANGED <<now, attached, delivered>>
    /\ UNCHANGED certVars

\* the loop over todo is through: _run returns
TickEnd ==
    /\ runner.pc = "todo"
    /\ runner.todo = <<>>
    /\ TickReturns("ok", "")
    /\ UNCHANGED <<now, schedule, scheduled, queues, attached, delivered>>
    /\ UNCHANGED certVars

\* time.sleep(1) of run(): the clock moves while the scheduler thread is
\* outside _run
Sleep ==
    /\ runner.pc = "idle"
    /\ Advance

(***************************************************************************)
(* Serial orders.  The calls of one tick and of the add_task and           *)
(* cancel_task calls that fell inside it, made one after the other on the  *)
(* maps the tick began with.                                               *)
(***************************************************************************)
\* add_task as a function of the maps
AddTaskOn(st, c, w, at) ==
    IF RunsAsap(w)
    THEN [st EXCEPT !.queues =
             QueueTask(@, QueueEntry(c, 0, NoTime, 0, at, "asap", 0))]
    ELSE LET t == AbsoluteTime(w, at)
             s1 == IF st.scheduled[c] # NoTime
                   THEN CancelTaskOn(st.schedule, st.scheduled, c)
                   ELSE [schedule |-> st.schedule, scheduled |-> st.scheduled,
                         ret |-> FALSE]
         IN  [st EXCEPT
                 !.scheduled = [s1.scheduled EXCEPT ![c] = t],
                 !.schedule = RecordInSlot(s1.schedule, w, t,
                                           [ctx |-> c, seq |-> 0])]

\* one add_task or cancel_task call of the trace, made on st; the outcome of
\* the call is appended to st.results
ApplyCall(st, call) ==
    IF call.op = "add_task"
    THEN [AddTaskOn(st, call.ctx, call.w, call.at) EXCEPT
             !.results = Append(@, AddTaskOutcome(call.w))]
    ELSE LET s1 == CancelTaskOn(st.schedule, st.scheduled, call.ctx)
         IN  [st EXCEPT !.schedule = s1.schedule,
                        !.scheduled = s1.scheduled,
                        !.results = Append(@, IF s1.ret THEN "True" ELSE "False")]

RECURSIVE ApplyCalls(_, _)
ApplyCalls(st, cs) ==
    IF cs = <<>> THEN st ELSE ApplyCalls(ApplyCall(st, Head(cs)), Tail(cs))

\* a whole _run at clock reading t, made on st
ApplyTick(st, t) ==
    LET r == RunTodo([schedule |-> st.schedule, scheduled |-> st.scheduled,
                      queues |-> st.queues, err |-> "ok", errctx |-> ""],
                     Todo(st.schedule, t, FALSE), t, "tick", 0)
    IN  [st EXCEPT !.schedule = r.schedule, !.scheduled = r.scheduled,
                   !.queues = r.queues, !.tick = <<r.err, r.errctx>>]

\* what a run of calls leaves behind: the slots of the forward map with
\* their contexts, the reverse map, the contexts on each queue, the
\* outcomes of the calls and of the tick
Outcome(st) ==
    [slots |-> {<<st.schedule[i].when, CtxsOf(st.schedule[i].items)>> :
                  i \in 1..Len(st.schedule)},
     scheduled |-> st.scheduled,
     queues |-> [q \in Queues |-> CtxsOf(st.queues[q])],
     results |-> st.results,
     tick |-> st.tick]

\* the calls that fell inside the latest tick
During == SubSeq(trace, runner.from + 1, runner.done - 1)

\* the serial order that makes the first j of those calls, then the tick,
\* then the rest
SerialOutcome(j) ==
    LET start == [schedule |-> runner.base.schedule,
                  scheduled |-> runner.base.scheduled,
                  queues |-> runner.base.queues,
                  results |-> <<>>, tick |-> <<"", "">>]
        before == ApplyCalls(start, SubSeq(During, 1, j))
        after == ApplyTick(before, runner.t)
    IN  Outcome(ApplyCalls(after, SubSeq(During, j + 1, Len(During))))

\* what the latest tick and the calls inside it did leave behind
ActualOutcome ==
    Outcome([schedule |-> schedule, scheduled |-> scheduled, queues |-> queues,
             results |-> [i \in 1..Len(During) |-> During[i].result],
             tick |-> <<trace[runner.done].result, trace[runner.done].ctx>>])

\* a tick has just returned: no call was made since
TickJustDone == runner.done > 0 /\ runner.done = calls

(***************************************************************************)
(* The specification.                                                      *)
(***************************************************************************)
\* SchedulerThread.__init__ with queues = Queues, and contexts just built
Init ==
    /\ now = 0
    /\ schedule = <<>>
    /\ scheduled = [c \in Contexts |-> NoTime]
    /\ queues = [q \in Queues |-> <<>>]
    /\ attached = [c \in Contexts |-> FALSE]
    /\ delivered = [q \in Queues |-> <<>>]
    /\ trace = <<>>
    /\ pem = [f \in Files |-> <<EndEntity(1), Issuer>>]
    /\ crt = [f \in Files |-> NewCertContext]
    /\ ocsp_file = [f \in Files |-> NoFile]
    /\ renew_queue = <<>>
    /\ unfinished = 0
    /\ worker = [w \in Workers |-> "running"]
    /\ acq = [n |-> 0, op |-> "", file |-> "", by |-> "", log |-> <<>>,
              result |-> ""]
    /\ runner = IdleRunner

Next ==
    \/ \E c \in Contexts, w \in Whens : AddTask(c, w)
    \/ \E c \in Contexts : CancelTask(c)
    \/ \E c \in Contexts, w \in Whens : Reschedule(c, w)
    \/ \E q \in Queues : GetTask(q)
    \/ Tick
    \/ RunAll
    \/ Advance

Spec == Init /\ [][Next]_vars

\* the certificate files as the daemon finds them, each with or without a
\* staple file of an earlier run; a CertContext built for each, the renew
\* queue empty, the renewer threads started; the scheduler idle
InitCert ==
    /\ now = 0
    /\ schedule = <<>>
    /\ scheduled = [c \in Contexts |-> NoTime]
    /\ queues = [q \in Queues |-> <<>>]
    /\ attached = [c \in Contexts |-> FALSE]
    /\ delivered = [q \in Queues |-> <<>>]
    /\ trace = <<>>
    /\ pem \in [Files -> PemFiles]
    /\ crt = [f \in Files |-> NewCertContext]
    /\ ocsp_file \in [Files -> {NoFile, OldStaple}]
    /\ renew_queue = <<>>
    /\ unfinished = 0
    /\ worker = [w \in Workers |-> "running"]
    /\ acq = [n |-> 0, op |-> "", file |-> "", by |-> "", log |-> <<>>,
              result |-> ""]
    /\ runner = IdleRunner

NextCert ==
    \/ \E f \in Files : ParseCrtChain(f)
    \/ \E f \in Files : PutRenew(f)
    \/ \E w \in Workers : RenewerRun(w)

SpecCert == InitCert /\ [][NextCert]_vars

\* the scheduler thread in run(), and the calls of the other threads with
\* a datetime or None as sched_time
NextThreads ==
    \/ TickBegin
    \/ TickPop
    \/ TickItem
    \/ TickEnd
    \/ Sleep
    \/ \E c \in Contexts, w \in Whens : w.kind # "rel" /\ AddTask(c, w)
    \/ \E c \in Contexts : CancelTask(c)

SpecThreads == Init /\ [][NextThreads]_vars

(***************************************************************************)
(* Vocabulary of the properties.                                           *)
(***************************************************************************)
\* everything put on queue q so far, in the order get_task hands it out
AllOut(q) == delivered[q] \o queues[q]

\* the places <<slot index, item index>> of context c in the forward map
Places(sch, c) ==
    {p \in UNION {{<<i, j>> : j \in 1..Len(sch[i].items)} : i \in 1..Len(sch)} :
        sch[p[1]].items[p[2]].ctx = c}

\* context c is an item of the slot of key t
InSlot(sch, c, t) ==
    \E p \in Places(sch, c) : sch[p[1]].when = t

\* a sequence of contexts without c
Without(cs, c) == SelectSeq(cs, LAMBDA x : x # c)

\* how many entries of queue q are context c
OnQueue(qs, c) == Cardinality({i \in 1..Len(qs[Task(c)]) : qs[Task(c)][i].ctx = c})

\* call i of the trace is an add_task of c with a time (not an ASAP one)
IsTimedAdd(i, c) ==
    /\ trace[i].op = "add_task"
    /\ trace[i].ctx = c
    /\ trace[i].w.kind # "none"
    /\ ~(trace[i].w.kind = "rel" /\ trace[i].w.v = 0)

\* the absolute time call i asked for
DueOf(i) ==
    IF trace[i].w.kind = "rel" THEN trace[i].at + trace[i].w.v ELSE trace[i].w.v

\* call i is an operation on context c
OnCtx(i, c) ==
    /\ trace[i].ctx = c
    /\ trace[i].op \in {"add_task", "cancel_task", "reschedule"}

\* the step appends to the trace a call of op
IsCall(op) ==
    /\ Len(trace') = Len(trace) + 1
    /\ trace'[Len(trace')].op = op

\* the entries of context c put on a queue by call k
PutBy(c, k) ==
    {<<q, i>> \in Queues \X (1..MaxCalls) :
        /\ i <= Len(AllOut(q))
        /\ AllOut(q)[i].ctx = c
        /\ AllOut(q)[i].run = k}

\* forward and reverse map agree: every item of a slot is scheduled at the
\* slot's key, every scheduled context is in the slot of its time, once
MapsAgree ==
    /\ \A c \in Contexts :
        /\ Cardinality(Places(schedule, c)) <= 1
        /\ \A p \in Places(schedule, c) : scheduled[c] = schedule[p[1]].when
        /\ scheduled[c] # NoTime => InSlot(schedule, c, scheduled[c])

(***************************************************************************)
(* The claims.                                                             *)
(***************************************************************************)

\* C1: the scheduler holds at most one scheduled entry per context identity
\* (the string form of the context), and the contexts of one identity occur
\* in the forward map at most once in all: a second add_task of a scheduled
\* identity cancels the earlier entry before it records the new one.
C1_OneEntryPerIdentity ==
    \A c \in Contexts :
        LET same == {x \in Contexts : Repr(x) = Repr(c)}
        IN  /\ Cardinality({x \in same : scheduled[x] # NoTime}) <= 1
            /\ Cardinality(UNION {Places(schedule, x) : x \in same}) <= 1

\* C2: when add_task(ctx, T1) is followed by add_task(ctx, T2) with T2 > T1
\* and nothing else is done to ctx, every later tick completes without an
\* error, a tick before T2 puts no ctx on a queue, and the ticks put ctx on
\* a queue at most once in all.
C2_DedupPromotesOnceAtT2 ==
    \A c \in Contexts : \A i, j \in 1..Len(trace) :
        ( /\ i < j
          /\ IsTimedAdd(i, c)
          /\ IsTimedAdd(j, c)
          /\ DueOf(i) < DueOf(j)
          /\ \A k \in 1..Len(trace) : OnCtx(k, c) => k \in {i, j} )
        =>
        /\ \A k \in (j + 1)..Len(trace) :
              trace[k].op = "tick" =>
                  /\ trace[k].result = "ok"
                  /\ \A p \in PutBy(c, k) : AllOut(p[1])[p[2]].at >= DueOf(j)
        /\ Cardinality(UNION {PutBy(c, k) :
              k \in {n \in (j + 1)..Len(trace) : trace[n].op = "tick"}}) <= 1

\* C3: cancel_task(ctx) of a context that is scheduled (in the reverse map
\* and in the slot of its time) returns True, takes ctx out of the reverse
\* map and out of that slot and leaves the other contexts of the slot, in
\* their order, and the rest of both maps as they were; cancel_task of a
\* context that is not scheduled returns False and changes neither map.
C3_CancelRemovesExactlyCtx ==
    [][\A c \in Contexts :
        (IsCall("cancel_task") /\ trace'[Len(trace')].ctx = c) =>
            IF scheduled[c] # NoTime /\ InSlot(schedule, c, scheduled[c])
            THEN /\ trace'[Len(trace')].result = "True"
                 /\ scheduled' = [scheduled EXCEPT ![c] = NoTime]
                 /\ Places(schedule', c) = {}
                 /\ Keys(schedule') = Keys(schedule)
                 /\ \A i \in 1..Len(schedule) :
                        CtxsOf(schedule'[i].items)
                            = Without(CtxsOf(schedule[i].items), c)
            ELSE scheduled[c] = NoTime =>
                 /\ trace'[Len(trace')].result = "False"
                 /\ UNCHANGED <<schedule, scheduled>>
      ]_vars

\* C4: once cancel_task(ctx) has returned True and ctx has not been added
\* again, no later tick or run_all puts ctx on a queue, and every later
\* tick completes without an error.
C4_CancelledNeverPromoted ==
    \A c \in Contexts : \A i \in 1..Len(trace) :
        ( /\ trace[i].op = "cancel_task"
          /\ trace[i].ctx = c
          /\ trace[i].result = "True"
          /\ \A k \in (i + 1)..Len(trace) :
                ~(trace[k].ctx = c /\ trace[k].op \in {"add_task", "reschedule"}) )
        =>
        \A k \in (i + 1)..Len(trace) :
            /\ trace[k].op \in {"tick", "run_all"} => PutBy(c, k) = {}
            /\ trace[k].op = "tick" => trace[k].result = "ok"

C6_TickPromotesAllDue ==
    [][(IsCall("tick") /\ MapsAgree) =>
        /\ trace'[Len(trace')].result = "ok"
        /\ \A c \in Contexts :
            /\ (scheduled[c] # NoTime /\ scheduled[c] <= now) =>
                  /\ scheduled'[c] = NoTime
                  /\ Places(schedule', c) = {}
                  /\ OnQueue(queues', c) = OnQueue(queues, c) + 1
            /\ (scheduled[c] = NoTime \/ scheduled[c] > now) =>
                  /\ scheduled'[c] = scheduled[c]
                  /\ OnQueue(queues', c) = OnQueue(queues, c)
        /\ \A i \in 1..Len(schedule) :
              schedule[i].when > now =>
                  \E k \in 1..Len(schedule') : schedule'[k] = schedule[i]
      ]_vars

\* C7: FIFO within a slot.  Of two contexts that one run takes from the
\* same slot onto the same queue, the one whose add_task came first is put
\* on the queue first, and get_task hands it out first.
C7_FifoWithinSlot ==
    \A q \in Queues : \A i, j \in 1..Len(AllOut(q)) :
        ( /\ AllOut(q)[i].slot # NoTime
          /\ AllOut(q)[i].slot = AllOut(q)[j].slot
          /\ AllOut(q)[i].run = AllOut(q)[j].run
          /\ AllOut(q)[i].seq < AllOut(q)[j].seq )
        => i < j

\* C7, its case: get_task has handed out two different contexts that one
\* tick took from the same slot
C7_TwoFromOneSlot ==
    \E q \in Queues : \E i, j \in 1..Len(delivered[q]) :
        /\ i < j
        /\ delivered[q][i].via = "tick"
        /\ delivered[q][i].slot = delivered[q][j].slot
        /\ delivered[q][i].run = delivered[q][j].run
        /\ delivered[q][i].ctx # delivered[q][j].ctx

\* C8 as claimed: of two contexts that one tick (one that completes) takes
\* from two slots onto the same queue, the one of the earlier slot is put
\* on the queue first.
C8_EarlierSlotFirst ==
    \A q \in Queues : \A i, j \in 1..Len(AllOut(q)) :
        ( /\ AllOut(q)[i].via = "tick"
          /\ trace[AllOut(q)[i].run].result = "ok"
          /\ AllOut(q)[i].run = AllOut(q)[j].run
          /\ AllOut(q)[i].slot < AllOut(q)[j].slot )
        => i < j

\* C8 as amended: of two contexts that one tick takes from two slots onto
\* the same queue, the one of the slot that was created first (by the
\* earlier add_task call) is put on the queue first, whatever the times of
\* the two slots.
C8_SlotCreationOrder ==
    \A q \in Queues : \A i, j \in 1..Len(AllOut(q)) :
        ( /\ AllOut(q)[i].via = "tick"
          /\ AllOut(q)[i].run = AllOut(q)[j].run
          /\ AllOut(q)[i].slot # AllOut(q)[j].slot
          /\ AllOut(q)[i].born < AllOut(q)[j].born )
        => i < j

\* C8, its case: one tick has completed and has put on a queue a context of
\* a later slot ahead of a context of an earlier slot
C8_LaterSlotAhead ==
    \E q \in Queues : \E i, j \in 1..Len(AllOut(q)) :
        /\ i < j
        /\ AllOut(q)[i].via = "tick"
        /\ trace[AllOut(q)[i].run].result = "ok"
        /\ AllOut(q)[i].run = AllOut(q)[j].run
        /\ AllOut(q)[i].slot > AllOut(q)[j].slot

\* C9: add_task of a context whose time is a relative duration d > 0,
\* called at `now`, returns normally and leaves the context scheduled at
\* now + d in both maps, and every context that was scheduled before the
\* call is still in the reverse map and in its slot.
C9_RelativeAddSchedules ==
    [][\A c \in Contexts :
        ( /\ IsCall("add_task")
          /\ trace'[Len(trace')].ctx = c
          /\ trace'[Len(trace')].w.kind = "rel"
          /\ trace'[Len(trace')].w.v > 0 )
        =>
        /\ trace'[Len(trace')].result = "ok"
        /\ scheduled'[c] = now + trace'[Len(trace')].w.v
        /\ InSlot(schedule', c, now + trace'[Len(trace')].w.v)
        /\ \A x \in Contexts \ {c} :
              /\ scheduled'[x] = scheduled[x]
              /\ (scheduled[x] # NoTime /\ InSlot(schedule, x, scheduled[x]))
                    => InSlot(schedule', x, scheduled[x])
      ]_vars

\* C10: ctx.reschedule(when) of a context that was added to a scheduler
\* before returns normally and leaves ctx scheduled at `when`, or once more
\* on its queue when `when` is empty; on a context never added it fails with
\* the not-attached error and changes neither the maps nor the queues.
C10_RescheduleDelegates ==
    [][\A c \in Contexts, w \in Whens :
        (IsCall("reschedule") /\ trace'[Len(trace')].ctx = c) =>
            IF attached[c]
            THEN /\ trace'[Len(trace')].result = "ok"
                 /\ RunsAsap(w) => OnQueue(queues', c) = OnQueue(queues, c) + 1
                 /\ ~RunsAsap(w) =>
                        /\ scheduled'[c] = AbsoluteTime(w, now)
                        /\ InSlot(schedule', c, AbsoluteTime(w, now))
            ELSE /\ trace'[Len(trace')].result = "AttributeError"
                 /\ UNCHANGED <<schedule, scheduled, queues>>
      ]_vars

(***************************************************************************)
(* Vocabulary of the properties of the certificate records.  A state right *)
(* after a turn of the renewer loop shows that turn in acq.                *)
(***************************************************************************)
\* the latest call was a turn of the renewer loop, so a call of
\* renew_ocsp_staple on the record of acq.file
Renewed == acq.op = "run"

\* the places of the events of one kind in the latest call
Events(ev) == {i \in 1..Len(acq.log) : acq.log[i].ev = ev}

\* the latest call examined a response body of the given certStatus
Saw(status) == \E i \in Events("check") : acq.log[i].data.status = status

\* the latest call ended with the examination of a body: no POST, sleep,
\* validation or write came after it
EndedAtCheck == acq.log # <<>> /\ acq.log[Len(acq.log)].ev = "check"

\* C11: revocation is terminal.  When a call of renew_ocsp_staple has
\* examined a response whose certStatus is revoked, the call raised
\* OCSPRenewError, made no POST after it, wrote nothing to the staple file,
\* and no staple file of an earlier acquisition is left on disk.
C11_RevocationTerminal ==
    (Renewed /\ Saw("revoked")) =>
        /\ acq.result = "OCSPRenewError"
        /\ EndedAtCheck
        /\ Events("write") = {}
        /\ ocsp_file[acq.file] = NoFile

\* a step that is one turn of the renewer loop
RunStep == acq'.n = acq.n + 1 /\ acq'.op = "run"

\* C12: an empty response body ends the acquisition at once.  When
\* check_ocsp_response is handed the body b'' of a response, the call of
\* renew_ocsp_staple raised OCSPRenewError with `retry` as it was at the
\* POST of that response, made no POST after it (to this URL or a later
\* one), and wrote nothing to the staple file.
C12_EmptyBodyRaises ==
    (Renewed /\ Saw("empty")) =>
        /\ acq.result = "OCSPRenewError"
        /\ EndedAtCheck
        /\ Len(acq.log) >= 2
        /\ acq.log[Len(acq.log) - 1].ev = "post"
        /\ acq.log[Len(acq.log) - 1].n = acq.log[Len(acq.log)].n
        /\ acq.log[Len(acq.log) - 1].url = acq.log[Len(acq.log)].url
        /\ Events("write") = {}

\* an empty body was examined, while a staple file was on disk
C12_EmptyBodySeen ==
    /\ Renewed
    /\ Saw("empty")
    /\ ocsp_file[acq.file] = OldStaple

\* C13: write after validate.  A turn of the renewer loop changes the staple
\* file of its record only by a write that comes right after a validation
\* that succeeded on exactly the bytes written, those bytes being a
\* response whose certStatus is good; when the validation fails the call
\* raises CertValidationError and the file is as it was.  No other staple
\* file changes.
C13_WriteAfterValidate ==
    [][RunStep =>
        LET f == acq'.file
            log == acq'.log
            Validated(i) ==
                /\ i >= 2
                /\ log[i - 1].ev = "validate"
                /\ log[i - 1].good
                /\ log[i - 1].data = log[i].data
                /\ log[i].data.status = "good"
        IN  /\ \A i \in 1..Len(log) : log[i].ev = "write" => Validated(i)
            /\ ocsp_file'[f] # ocsp_file[f] =>
                  /\ log # <<>>
                  /\ log[Len(log)].ev = "write"
                  /\ log[Len(log)].data = ocsp_file'[f]
                  /\ acq'.result = "True"
            /\ (\E i \in 1..Len(log) : log[i].ev = "validate" /\ ~log[i].good) =>
                  /\ acq'.result = "CertValidationError"
                  /\ ocsp_file'[f] = ocsp_file[f]
            /\ \A g \in Files \ {f} : ocsp_file'[g] = ocsp_file[g]
    ]_vars

\* a call validated a good response and wrote it over an older staple file
C13_Written ==
    /\ Renewed
    /\ acq.result = "True"
    /\ Events("write") # {}
    /\ ocsp_file[acq.file] \notin {NoFile, OldStaple}

\* the POSTs of the latest call, in order
Posts == SelectSeq(acq.log, LAMBDA e : e.ev = "post")

\* the number of POSTs the latest call made to URL number u
PostsTo(u) == Cardinality({i \in 1..Len(Posts) : Posts[i].url = u})

\* the outcomes renew_ocsp_staple is specified to have
Specified == {"True", "OCSPRenewError", "CertValidationError"}

\* C14: URL fallback with bounded retry.  A call of renew_ocsp_staple that
\* POSTs tries the URLs in list order; it POSTs to a URL only after every
\* URL before it got exactly OCSP_REQUEST_RETRY_COUNT POSTs; an answer that
\* is not good (a bad HTTP status included) is no error of its own: the
\* call returns True with the staple written, or raises for a revoked or
\* empty answer or a failed validation, or else raises OCSPRenewError
\* after exactly OCSP_REQUEST_RETRY_COUNT POSTs to each URL.
C14_UrlFallback ==
    (Renewed /\ Posts # <<>>) =>
        LET urls == crt[acq.file].ocsp_urls
        IN  /\ Posts[1].url = urls[1]
            /\ \A i \in 1..Len(Posts) - 1 :
                  \/ Posts[i + 1].url = Posts[i].url
                  \/ /\ Posts[i + 1].url = Posts[i].url + 1
                     /\ PostsTo(Posts[i].url) = OCSP_REQUEST_RETRY_COUNT
            /\ acq.result \in Specified
            /\ acq.result = "True" => Events("write") # {}
            /\ (acq.result = "OCSPRenewError"
                    /\ ~Saw("revoked") /\ ~Saw("empty")) =>
                  Len(Posts) = OCSP_REQUEST_RETRY_COUNT * Len(urls)

\* C15: transient failures are retried on the same URL.  In a call of
\* renew_ocsp_staple, a POST that ends in a network error while attempts
\* are left is followed by another POST to the same URL; when the POST
\* after k such failures (k < OCSP_REQUEST_RETRY_COUNT) gets a good answer
\* that validates, the call made exactly k + 1 POSTs, returned True and
\* wrote the staple file.
C15_TransientRetried ==
    Renewed =>
        /\ \A i \in 1..Len(Posts) :
              (Posts[i].reply = NetErr /\ Posts[i].n > 1) =>
                  /\ i < Len(Posts)
                  /\ Posts[i + 1].url = Posts[i].url
        /\ \A k \in 0..OCSP_REQUEST_RETRY_COUNT - 1 :
              (/\ Len(Posts) > k
               /\ \A i \in 1..k : Posts[i].reply = NetErr
               /\ Posts[k + 1].reply.kind = "response"
               /\ Posts[k + 1].reply.code = 200
               /\ Posts[k + 1].reply.content.status = "good"
               /\ \A i \in Events("validate") : acq.log[i].good) =>
                  /\ Len(Posts) = k + 1
                  /\ acq.result = "True"
                  /\ ocsp_file[acq.file] = Posts[k + 1].reply.content

\* C16: back-off.  In a call of renew_ocsp_staple, the k-th failed attempt
\* on a URL (k = 1 .. OCSP_REQUEST_RETRY_COUNT - 1) is followed by a sleep
\* of k * 5 seconds and then the next POST to the same URL; the last
\* attempt on a URL is followed by no sleep.
C16_BackOff ==
    Renewed =>
        \A i \in Events("check") :
            (acq.log[i].data.status = "unknown") =>
                LET k == OCSP_REQUEST_RETRY_COUNT - acq.log[i].n + 1
                IN  IF k < OCSP_REQUEST_RETRY_COUNT
                    THEN /\ i + 2 <= Len(acq.log)
                         /\ acq.log[i + 1].ev = "sleep"
                         /\ acq.log[i + 1].n = k * 5
                         /\ acq.log[i + 2].ev = "post"
                         /\ acq.log[i + 2].url = acq.log[i].url
                    ELSE i = Len(acq.log) \/ acq.log[i + 1].ev # "sleep"

\* a record renew_ocsp_staple may work on: the end entity is set, the
\* validated chain and the list of OCSP URLs are not empty
Eligible(c) ==
    c.end_entity # NoCert /\ c.chain # <<>> /\ c.ocsp_urls # <<>>

\* C17: eligibility.  A call of renew_ocsp_staple on a record that is not
\* eligible raises CertValidationError before a request is built and before
\* any POST, and leaves the record (request, staple, valid_until) and the
\* staple file as they were.
C17_EligibilityRequired ==
    [][(RunStep /\ ~Eligible(crt[acq'.file])) =>
          /\ acq'.result = "CertValidationError"
          /\ acq'.log = <<>>
          /\ crt' = crt
          /\ ocsp_file' = ocsp_file
    ]_vars

\* a step that is a call of parse_crt_chain
ParseStep == acq'.n = acq.n + 1 /\ acq'.op = "parse_crt_chain"

\* parse_crt_chain has read the file of the record before
Parsed(c) == c.end_entity # NoCert \/ c.intermediates # <<>>

\* C18: parse_crt_chain is idempotent.  A call on a record that was parsed
\* before, the file being unchanged, leaves end_entity, intermediates (same
\* length, nothing appended), ocsp_urls and chain as they were.
C18_ParseIdempotent ==
    [][(ParseStep /\ Parsed(crt[acq'.file])) =>
          LET f == acq'.file
          IN  /\ crt'[f].end_entity = crt[f].end_entity
              /\ crt'[f].intermediates = crt[f].intermediates
              /\ crt'[f].ocsp_urls = crt[f].ocsp_urls
              /\ crt'[f].chain = crt[f].chain
    ]_vars

\* C19: a successful acquisition is followed by a renewal.  After a turn of
\* the renewer loop whose call of renew_ocsp_staple returned True, a renew
\* task is scheduled at a time before the record's valid_until.
C19_RenewalScheduled ==
    [][(RunStep /\ acq'.result = "True") =>
          \E c \in Contexts :
              /\ Task(c) = "renew"
              /\ scheduled'[c] # NoTime
              /\ scheduled'[c] < crt'[acq'.file].valid_until
    ]_vars

\* C20: a failed acquisition does not stop a renewer.  After a turn of the
\* renewer loop whose call of renew_ocsp_staple raised OCSPRenewError or
\* CertValidationError, the task is marked done and the thread is still
\* running, ready for the next record.
C20_WorkerSurvivesFailure ==
    [][(RunStep /\ acq'.result \in {"OCSPRenewError", "CertValidationError"}) =>
          /\ worker'[acq'.by] = "running"
          /\ unfinished' = unfinished - 1
    ]_vars

\* C21: add_task, cancel_task and tick exclude each other on the two maps.
\* Whatever add_task and cancel_task calls of other threads fall between
\* the steps of a tick, the tick and those calls leave behind what some
\* serial order of them leaves behind: the same maps, the same queues, the
\* same return values, the same outcome of the tick.
C21_TickSerializable ==
    TickJustDone =>
        \E j \in 0..Len(During) : SerialOutcome(j) = ActualOutcome


\* C22: at most one in flight.  After any sequence of add_task, cancel_task,
\* tick and get_task calls, a context is referred to by at most one entry:
\* the entries of its queue and its entries in the forward map together are
\* at most one, so that no two workers can dequeue the same context.
C22_AtMostOneInFlight ==
    \A c \in Contexts :
        OnQueue(queues, c) + Cardinality(Places(schedule, c)) <= 1


\* the reply of a POST is a failure of the network: no response came, or
\* one with a bad HTTP status
Failed(reply) == reply.kind = "neterr" \/ reply.code >= 400

\* C23: response processing is reached only with the response of the
\* current attempt in hand.  In a call of renew_ocsp_staple every body
\* handed to check_ocsp_response is the body of the response the POST right
\* before it got, and that POST did not fail; a POST that fails is followed
\* by no examination of a body: the call goes on to its next attempt, or
\* ends there with OCSPRenewError when none is left.
C23_ResponseInHand ==
    Renewed =>
        /\ \A i \in Events("check") :
              /\ i > 1
              /\ acq.log[i - 1].ev = "post"
              /\ ~Failed(acq.log[i - 1].reply)
              /\ acq.log[i].reply = acq.log[i - 1].reply
              /\ acq.log[i].data = acq.log[i - 1].reply.content
        /\ \A i \in Events("post") :
              Failed(acq.log[i].reply) =>
                  IF i = Len(acq.log)
                  THEN acq.result = "OCSPRenewError"
                  ELSE acq.log[i + 1].ev \in {"sleep", "post"}


\* C24: the staple a record holds in memory is a good one.  After any
\* sequence of parse_crt_chain and renew_ocsp_staple calls, whatever their
\* outcomes, the ocsp_staple of every record is None or a response whose
\* certStatus is good.
C24_StapleInMemoryGood ==
    \A f \in Files :
        crt[f].ocsp_staple = NoStaple \/ crt[f].ocsp_staple.status = "good"


\* C25: the forward and the reverse map agree.  In every state between
\* complete add_task, cancel_task, tick and run_all calls, whatever their
\* outcomes, scheduled[c] = t exactly when c is an item of the slot of key
\* t in schedule.
C25_ForwardReverseConsistent ==
    \A c \in Contexts :
        /\ scheduled[c] # NoTime => InSlot(schedule, c, scheduled[c])
        /\ \A i \in 1..Len(schedule) :
              c \in {schedule[i].items[j].ctx : j \in 1..Len(schedule[i].items)}
                  => scheduled[c] = schedule[i].when

====
